---- MODULE Spec2Model ----
(***************************************************************************)
(* Restaurant recommendation API (src/main.py, src/backend.py,            *)
(* src/recomendaciones.py) over a Neo4j graph store.                       *)
(*                                                                         *)
(* The store is the set of User nodes and the set of Restaurant nodes with *)
(* their relationships.  Each handler is one action: it runs its Cypher    *)
(* query against the store and leaves the JSON body it returns in          *)
(* `response`.  The Cypher expressions are evaluated as Neo4j evaluates    *)
(* them: comparisons and AND/OR are three-valued (true, false, null) and a *)
(* CASE WHEN / WHERE branch is taken only when its predicate is true.      *)
(***************************************************************************)
EXTENDS Integers, Sequences, FiniteSets, TLC

VARIABLES
    users,        \* set of User nodes
    restaurants,  \* set of Restaurant nodes
    response,     \* JSON body (and HTTP status) of the last request
    scored,       \* rows of the last get_recommendations query after its
                  \* second WITH (u, r, total_score), before WHERE total_score >= 1
    last,         \* the last request served: its handler, the Authorization
                  \* header or URL parameter it carried, the message of the
                  \* JSON body, the lines written to the logger, the token
                  \* the body carries
    driver,       \* db.driver: NULL until db.connect() has succeeded
    tokens,       \* payloads of the JWTs signed with JWT_SECRET so far
    registering,  \* per client, the /auth/register request that has run its
                  \* check query and not yet its CREATE query
    ratings       \* set of RATED edges

vars == <<users, restaurants, response, scored, last, driver, tokens, registering, ratings>>

\* what the handlers of main.py never touch
authVars == <<tokens, registering, ratings>>

----------------------------------------------------------------------------
(* Bounds of the model *)

MaxUsers == 2          \* User nodes the store may hold
MaxRestaurants == 13   \* Restaurant nodes the store may hold: the imported ones
                       \* and enough more to exceed the LIMIT of the query
MaxClients == 2        \* clients that may have a request in flight at once

----------------------------------------------------------------------------
(* Cypher values and three-valued logic *)

T == "true"
F == "false"
NULL == "null"

Bool3 == {T, F, NULL}

\* a = b on property values: null when either side is null (a missing property)
CypherEq(a, b) == IF a = NULL \/ b = NULL THEN NULL ELSE IF a = b THEN T ELSE F

CypherAnd(a, b) ==
    IF a = F \/ b = F THEN F
    ELSE IF a = NULL \/ b = NULL THEN NULL
    ELSE T

CypherOr(a, b) ==
    IF a = T \/ b = T THEN T
    ELSE IF a = NULL \/ b = NULL THEN NULL
    ELSE F

\* numeric comparisons of two integers
CypherLe(a, b) == IF a <= b THEN T ELSE F
CypherGe(a, b) == IF a >= b THEN T ELSE F

\* WHERE p / CASE WHEN p: only a predicate that is true passes
Holds(p) == p = T

\* EXISTS((a)-[]->(:Label)<-[]-(b)): the two nodes share a neighbour
SharePattern(s1, s2) == IF s1 \cap s2 # {} THEN T ELSE F

----------------------------------------------------------------------------
(* Nodes of the graph store *)

\* A User node with its PREFERS / LIKES_AMBIANCE / PREFERS_ZONE neighbours.
\* username is NULL on nodes created by add_user (main.py sets none).
UserNode(id, name, username, budget, mascota, ninos, accesibilidad, promociones, personas, cats, ambs, zones) ==
    [id |-> id, name |-> name, username |-> username, budget |-> budget,
     tiene_mascota |-> mascota, tiene_ninos |-> ninos,
     necesita_accesibilidad |-> accesibilidad, desea_promociones |-> promociones,
     cantidad_personas |-> personas,
     prefers |-> cats, likes_ambiance |-> ambs, prefers_zone |-> zones]

\* A Restaurant node with its HAS_CATEGORY / HAS_AMBIANCE / LOCATED_IN neighbours.
RestaurantNode(id, precio, pet, juegos, accesible, promociones, capacidad, nivel, cats, ambs, zones) ==
    [id |-> id, precio_promedio |-> precio, pet_friendly |-> pet,
     juegos_ninos |-> juegos, accesible |-> accesible, promociones |-> promociones,
     capacidad |-> capacidad, nivel_servicio |-> nivel,
     has_category |-> cats, has_ambiance |-> ambs, located_in |-> zones]

\* Node ids are pairs <<origin, serial>>; IdLess orders them (used only to
\* enumerate rows whose ORDER BY keys are equal).
IdLess(a, b) == a[1] < b[1] \/ (a[1] = b[1] /\ a[2] < b[2])

----------------------------------------------------------------------------
(* get_recommendations: the eight CASE expressions of the scoring query *)

\* variant: the category weight written as 3
category_score_Weight3(u, r) ==
    IF Holds(SharePattern(u.prefers, r.has_category)) THEN 3 ELSE 0

category_score(u, r) ==
    IF Holds(SharePattern(u.prefers, r.has_category)) THEN 2 ELSE 0

ambiance_score(u, r) ==
    IF Holds(SharePattern(u.likes_ambiance, r.has_ambiance)) THEN 2 ELSE 0

zone_score(u, r) ==
    IF Holds(SharePattern(u.prefers_zone, r.located_in)) THEN 1 ELSE 0

pet_score(u, r) ==
    IF Holds(CypherAnd(CypherEq(u.tiene_mascota, T), CypherEq(r.pet_friendly, T)))
    THEN 1
    ELSE IF Holds(CypherOr(CypherEq(u.tiene_mascota, F), CypherEq(r.pet_friendly, T)))
    THEN 0
    ELSE -1

kids_score(u, r) ==
    IF Holds(CypherAnd(CypherEq(u.tiene_ninos, T), CypherEq(r.juegos_ninos, T)))
    THEN 1
    ELSE IF Holds(CypherOr(CypherEq(u.tiene_ninos, F), CypherEq(r.juegos_ninos, T)))
    THEN 0
    ELSE -1

accessibility_score(u, r) ==
    IF Holds(CypherAnd(CypherEq(u.necesita_accesibilidad, T), CypherEq(r.accesible, T)))
    THEN 2
    ELSE IF Holds(CypherOr(CypherEq(u.necesita_accesibilidad, F), CypherEq(r.accesible, T)))
    THEN 0
    ELSE -2

promotion_score(u, r) ==
    IF Holds(CypherAnd(CypherEq(u.desea_promociones, T), CypherEq(r.promociones, T)))
    THEN 1 ELSE 0

\* variant: capacity compared with > instead of >=
capacity_score_Strict(u, r) ==
    IF Holds(CypherGe(r.capacidad, u.cantidad_personas + 1)) THEN 0 ELSE -3

capacity_score(u, r) ==
    IF Holds(CypherGe(r.capacidad, u.cantidad_personas)) THEN 0 ELSE -3

total_score(u, r) ==
    category_score(u, r) + ambiance_score(u, r) + zone_score(u, r) + pet_score(u, r)
    + kids_score(u, r) + accessibility_score(u, r) + promotion_score(u, r)
    + capacity_score(u, r)

\* the row of the second WITH for the pair (u, r); the eight terms are kept
\* next to their sum
ScoredRow(u, r) ==
    [u |-> u.id, r |-> r.id,
     category_score |-> category_score(u, r),
     ambiance_score |-> ambiance_score(u, r),
     zone_score |-> zone_score(u, r),
     pet_score |-> pet_score(u, r),
     kids_score |-> kids_score(u, r),
     accessibility_score |-> accessibility_score(u, r),
     promotion_score |-> promotion_score(u, r),
     capacity_score |-> capacity_score(u, r),
     total_score |-> total_score(u, r)]

----------------------------------------------------------------------------
(* get_recommendations: filter, threshold, aggregation, ORDER BY, LIMIT *)

\* MATCH (u:User {name: $user_name}) in main.py,
\* MATCH (u:User {username: $user_name}) in backend.py
MatchUserByName(user_name) == {u \in users : Holds(CypherEq(u.name, user_name))}
MatchUserByUsername(user_name) == {u \in users : Holds(CypherEq(u.username, user_name))}

\* variant: the budget WHERE clause left out
WithinBudget_Unfiltered(u, r) == TRUE

\* WHERE r.precio_promedio <= u.budget
WithinBudget(u, r) == Holds(CypherLe(r.precio_promedio, u.budget))

\* MATCH (u) MATCH (r:Restaurant) WHERE ...: the candidate pairs
Candidates(U) == {p \in U \X restaurants : WithinBudget(p[1], p[2])}

ScoredRows(U) == {ScoredRow(p[1], p[2]) : p \in Candidates(U)}

\* variant: the threshold written as >= 0
PassesThreshold_Zero(total) == Holds(CypherGe(total, 0))

\* WHERE total_score >= 1
PassesThreshold(total) == Holds(CypherGe(total, 1))

RestaurantById(id) == CHOOSE r \in restaurants : r.id = id
UserById(id) == CHOOSE u \in users : u.id = id

\* RETURN ... collect(DISTINCT ...): one row per distinct tuple of the
\* non-aggregated columns, that is per (restaurant, total_score); u is not
\* a column.  for_users records which users' pairs fell into the row.
ReturnRows(S) ==
    LET kept == {s \in S : PassesThreshold(s.total_score)}
        keys == {<<s.r, s.total_score>> : s \in kept}
    IN  { LET r == RestaurantById(k[1])
          IN  [restaurant_id |-> r.id, price |-> r.precio_promedio,
               compatibility_score |-> k[2],
               pet_friendly |-> r.pet_friendly, kids_games |-> r.juegos_ninos,
               accessible |-> r.accesible, promotions |-> r.promociones,
               service_level |-> r.nivel_servicio,
               categories |-> r.has_category, ambiance |-> r.has_ambiance,
               zones |-> r.located_in,
               for_users |-> {s.u : s \in {x \in kept : x.r = k[1] /\ x.total_score = k[2]}}]
        : k \in keys }

\* Rows with equal ORDER BY keys come in an order Cypher leaves open; tie is
\* the order the server happens to produce ("asc" / "desc" by node id).
TieOrders == {"asc", "desc"}

TieBefore(a, b, tie) ==
    IF tie = "asc" THEN IdLess(a.restaurant_id, b.restaurant_id)
    ELSE IdLess(b.restaurant_id, a.restaurant_id)

\* variant: price ordered DESC
RecommendationBefore_PriceDesc(a, b, tie) ==
    \/ a.compatibility_score > b.compatibility_score
    \/ /\ a.compatibility_score = b.compatibility_score
       /\ a.price > b.price
    \/ /\ a.compatibility_score = b.compatibility_score
       /\ a.price = b.price
       /\ TieBefore(a, b, tie)

\* ORDER BY total_score DESC, r.precio_promedio ASC
RecommendationBefore(a, b, tie) ==
    \/ a.compatibility_score > b.compatibility_score
    \/ /\ a.compatibility_score = b.compatibility_score
       /\ a.price < b.price
    \/ /\ a.compatibility_score = b.compatibility_score
       /\ a.price = b.price
       /\ TieBefore(a, b, tie)

OrderRecommendations(S, tie) ==
    [i \in 1..Cardinality(S) |->
        CHOOSE x \in S :
            Cardinality({y \in S : RecommendationBefore(y, x, tie)}) = i - 1]

RecommendationLimit == 10

\* variant: the LIMIT left out
Limit_None(rows, n) == rows

\* LIMIT n
Limit(rows, n) == IF Len(rows) <= n THEN rows ELSE SubSeq(rows, 1, n)

RecommendationsQuery(U, tie) ==
    Limit(OrderRecommendations(ReturnRows(ScoredRows(U)), tie), RecommendationLimit)

----------------------------------------------------------------------------
(* get_advanced_recommendations: the dynamic WHERE clause *)

\* A JSON request body: the keys it carries and their values (the value of a
\* key that is not in `keys` is never read).
Get(data, key, default) == IF key \in data.keys THEN data[key] ELSE default

DefaultBudget == 1000

\* the conditions list built from the body; Python truthiness decides whether
\* a key adds its condition ("" / [] / false / 0 / missing add none)
AdvancedConditions(data) ==
    {"budget"}
    \cup (IF "zone" \in data.keys /\ data.zone # "" THEN {"zone"} ELSE {})
    \cup (IF "categories" \in data.keys /\ data.categories # {} THEN {"categories"} ELSE {})
    \cup (IF "pet_friendly" \in data.keys /\ data.pet_friendly = T THEN {"pet_friendly"} ELSE {})
    \cup (IF "kids_games" \in data.keys /\ data.kids_games = T THEN {"kids_games"} ELSE {})
    \cup (IF "accessible" \in data.keys /\ data.accessible = T THEN {"accessible"} ELSE {})
    \cup (IF "promotions" \in data.keys /\ data.promotions = T THEN {"promotions"} ELSE {})
    \cup (IF "min_service_level" \in data.keys /\ data.min_service_level # 0
          THEN {"min_service_level"} ELSE {})

\* variant: another default budget
AdvancedBudget_Default20(data) == Get(data, "budget", 20)

\* parameters["budget"] = data.get("budget", 1000)
AdvancedBudget(data) == Get(data, "budget", DefaultBudget)

\* one condition of the WHERE clause, as a three-valued Cypher predicate on r
AdvancedCondition(c, r, data) ==
    CASE c = "budget" -> CypherLe(r.precio_promedio, AdvancedBudget(data))
      [] c = "zone" -> IF data.zone \in r.located_in THEN T ELSE F
      [] c = "categories" -> IF data.categories \cap r.has_category # {} THEN T ELSE F
      [] c = "pet_friendly" -> CypherEq(r.pet_friendly, T)
      [] c = "kids_games" -> CypherEq(r.juegos_ninos, T)
      [] c = "accessible" -> CypherEq(r.accesible, T)
      [] c = "promotions" -> CypherEq(r.promociones, T)
      [] c = "min_service_level" -> CypherGe(r.nivel_servicio, data.min_service_level)

\* WHERE <conditions joined by AND>
AdvancedWhere(r, data) ==
    \A c \in AdvancedConditions(data) : Holds(AdvancedCondition(c, r, data))

AdvancedRows(data) ==
    { [restaurant_id |-> r.id, price |-> r.precio_promedio,
       pet_friendly |-> r.pet_friendly, kids_games |-> r.juegos_ninos,
       accessible |-> r.accesible, promotions |-> r.promociones,
       service_level |-> r.nivel_servicio,
       categories |-> r.has_category, ambiance |-> r.has_ambiance,
       zones |-> r.located_in]
      : r \in {x \in restaurants : AdvancedWhere(x, data)} }

\* variant: service level ordered ASC
AdvancedBefore_LevelAsc(a, b, tie) ==
    \/ a.service_level < b.service_level
    \/ /\ a.service_level = b.service_level
       /\ a.price < b.price
    \/ /\ a.service_level = b.service_level
       /\ a.price = b.price
       /\ TieBefore(a, b, tie)

\* ORDER BY r.nivel_servicio DESC, r.precio_promedio ASC
AdvancedBefore(a, b, tie) ==
    \/ a.service_level > b.service_level
    \/ /\ a.service_level = b.service_level
       /\ a.price < b.price
    \/ /\ a.service_level = b.service_level
       /\ a.price = b.price
       /\ TieBefore(a, b, tie)

OrderAdvanced(S, tie) ==
    [i \in 1..Cardinality(S) |->
        CHOOSE x \in S :
            Cardinality({y \in S : AdvancedBefore(y, x, tie)}) = i - 1]

AdvancedQuery(data, tie) == OrderAdvanced(AdvancedRows(data), tie)

----------------------------------------------------------------------------
(* The data the store is loaded with and the request bodies that are sent *)

\* Users and restaurants loaded by the data import (origin 0).  Only the import
\* creates relationships: no handler of src/ writes one.
SeedUsers ==
    { UserNode(<<0, 1>>, "ana", "ana", 20, T, F, F, T, 2, {"Italian"}, {}, {}),
      UserNode(<<0, 2>>, "luis", "luis", 30, F, T, T, F, 4,
               {"Mexican"}, {"Romantic"}, {"Zona10"}) }

SeedRestaurants ==
    { RestaurantNode(<<0, 1>>, 15, T, F, F, T, 4, 4, {"Italian"}, {}, {"Zona10"}),
      RestaurantNode(<<0, 2>>, 15, F, F, F, T, 1, 3, {"Italian"}, {}, {}),
      RestaurantNode(<<0, 3>>, 25, T, T, T, T, 10, 5,
                     {"Mexican"}, {"Romantic"}, {"Zona10"}),
      RestaurantNode(<<0, 4>>, 12, T, F, F, T, 4, 2, {}, {}, {}) }

UserBody(keys, name, budget, has_pet, has_children, needs_accessibility, wants_promotions, group_size) ==
    [keys |-> keys, name |-> name, budget |-> budget, has_pet |-> has_pet,
     has_children |-> has_children, needs_accessibility |-> needs_accessibility,
     wants_promotions |-> wants_promotions, group_size |-> group_size]

\* bodies POSTed to /add_user
AddUserRequests ==
    << UserBody({"name", "age", "budget", "has_pet"}, "ana", 10, T, F, F, F, 0),
       UserBody({"name", "age", "budget", "has_pet"}, "ana", 20, NULL, F, F, F, 0),
       UserBody({"name", "age"}, "ana", 0, F, F, F, F, 0),
       UserBody({"name", "age", "budget", "has_pet", "wants_promotions"},
                "ana", 20, T, F, F, T, 0),
       UserBody({"name", "age", "budget", "has_pet"}, "ana", 20, T, F, F, F, 0) >>

\* the bodies sent in the runs over the imported data set, and the bodies of
\* two users who have the same name
StoreUserBodies == {1, 2, 3}
SameNameUserBodies == {4, 5}

RestaurantBody(keys, precio_promedio, pet_friendly, juegos_ninos, accesible, promociones, capacidad, nivel_servicio) ==
    [keys |-> keys, precio_promedio |-> precio_promedio,
     pet_friendly |-> pet_friendly, juegos_ninos |-> juegos_ninos,
     accesible |-> accesible, promociones |-> promociones,
     capacidad |-> capacidad, nivel_servicio |-> nivel_servicio]

\* bodies POSTed to /add_restaurant
AddRestaurantRequests ==
    << RestaurantBody({"nombre", "precio_promedio", "pet_friendly", "promociones"},
                      10, T, F, F, T, 0, 0),
       RestaurantBody({"nombre", "precio_promedio", "accesible", "capacidad",
                       "nivel_servicio"}, 1500, F, F, T, F, 2, 5),
       RestaurantBody({"nombre"}, 0, F, F, F, F, 0, 0),
       RestaurantBody({"nombre", "precio_promedio", "pet_friendly"},
                      12, T, F, F, F, 0, 0) >>

StoreRestaurantBodies == {1, 2, 3}
SameNameRestaurantBodies == {1, 4}

\* names asked for at /recommendations/<user_name>
UserNames == {"ana", "luis", "nadie"}

AdvancedBody(keys, budget, zone, categories, pet_friendly, kids_games, accessible, promotions, min_service_level) ==
    [keys |-> keys, budget |-> budget, zone |-> zone, categories |-> categories,
     pet_friendly |-> pet_friendly, kids_games |-> kids_games,
     accessible |-> accessible, promotions |-> promotions,
     min_service_level |-> min_service_level]

NoCriteria == AdvancedBody({}, 0, "", {}, F, F, F, F, 0)

\* bodies POSTed to /recommendations/advanced
AdvancedRequests ==
    { NoCriteria,
      AdvancedBody({"budget"}, 20, "", {}, F, F, F, F, 0),
      AdvancedBody({"zone"}, 0, "Zona10", {}, F, F, F, F, 0),
      AdvancedBody({"categories"}, 0, "", {"Italian"}, F, F, F, F, 0),
      AdvancedBody({"pet_friendly"}, 0, "", {}, T, F, F, F, 0),
      AdvancedBody({"kids_games"}, 0, "", {}, F, T, F, F, 0),
      AdvancedBody({"accessible"}, 0, "", {}, F, F, T, F, 0),
      AdvancedBody({"promotions"}, 0, "", {}, F, F, F, T, 0),
      AdvancedBody({"min_service_level"}, 0, "", {}, F, F, F, F, 4),
      AdvancedBody({"budget", "zone", "categories", "pet_friendly", "min_service_level"},
                   2000, "", {}, F, F, F, F, 0),
      AdvancedBody({"budget", "categories", "pet_friendly", "promotions",
                    "min_service_level"},
                   20, "", {"Italian", "Mexican"}, T, F, F, T, 3) }

----------------------------------------------------------------------------
(* Handlers *)

Response(kind, status, user, criteria, rows) ==
    [kind |-> kind, status |-> status, user |-> user, criteria |-> criteria,
     rows |-> rows]

NoResponse == Response("none", 0, NULL, NoCriteria, <<>>)

\* The request just served: the handler, what the request addressed it with
\* (its Authorization header or the <user_name> of its URL), the message of
\* the body, the log lines, the token of the body.  A message built by an
\* f-string is the tuple of the texts it is made of, a log line likewise.
Last(handler, request, message, logged, token) ==
    [handler |-> handler, request |-> request, message |-> message,
     logged |-> logged, token |-> token]

\* no Authorization header (and no <user_name> in the URL)
NoAuthorization == [scheme |-> "none"]

\* /recommendations/<user_name>, /users/<user_name>, /users/<user_name>/preferences
Url(user_name) == [scheme |-> "none", user_name |-> user_name]

\* a body without "token"
NoToken == [kind |-> "none"]

NoRequest == Last("none", NoAuthorization, <<>>, <<>>, NoToken)

\* what session.run() does with a query: it returns the records or raises
QueryOutcomes == {"ok", "error"}

\* text of the exception the driver raises
DriverError == "ServiceUnavailable: Unable to retrieve routing information"

\* db.execute_query: the text of the exception it raises, NULL when it returns
Raised(q) ==
    IF driver = NULL THEN "Database not connected"
    ELSE IF q = "error" THEN DriverError
    ELSE NULL

\* db.execute_query: logger.error(f"Query execution failed: {e}")
QueryLog(q) ==
    IF driver # NULL /\ q = "error"
    THEN << <<"Query execution failed", DriverError>> >>
    ELSE <<>>

\* handle_error(e, message): logs f"{message}: {str(e)}" and answers 500 with
\* the same text as the message of the body
handle_error(e, message) ==
    [status |-> 500, message |-> <<message, e>>, logged |-> << <<message, e>> >>]

\* except Exception as e: return handle_error(e, message)
Fail(handler, request, q, message) ==
    LET err == handle_error(Raised(q), message) IN
    /\ response' = Response("error", err.status, NULL, NoCriteria, <<>>)
    /\ last' = Last(handler, request, err.message,
                    QueryLog(q) \o err.logged, NoToken)

\* return jsonify({"status": "error", "message": message}), status
Reject(handler, request, status, message) ==
    /\ response' = Response("error", status, NULL, NoCriteria, <<>>)
    /\ last' = Last(handler, request, message, <<>>, NoToken)

\* clients of the API; no request of a client is in flight
Clients == 1..MaxClients
Idle == [c \in Clients |-> 0]

\* randomUUID(): an id no node carries yet
NewId(nodes, origin) ==
    <<origin, 1 + Cardinality({n \in nodes : n.id[1] = origin})>>

\* the database is empty or holds the imported data set; the application was
\* started by __main__ (db.connect() succeeded) or imported by a WSGI server
\* (db.connect() never called)
Init ==
    /\ users \in {{}, SeedUsers}
    /\ restaurants \in {{}, SeedRestaurants}
    /\ response = NoResponse
    /\ scored = {}
    /\ last = NoRequest
    /\ driver \in {"connected", NULL}
    /\ tokens = {}
    /\ registering = Idle
    /\ ratings = {}

\* variant: the query also stamps the user it matched
RecommendationQuerySets_Stamp(u) == [last_recommendation |-> "datetime()"] @@ u

\* the node a user matched by the recommendation query is after it: the
\* query is MATCH ... WITH ... RETURN, without SET, CREATE, MERGE or DELETE
RecommendationQuerySets(u) == u

\* the User nodes after the query has matched the users U
AfterRecommendationQuery(U) ==
    (users \ U) \cup {RecommendationQuerySets(u) : u \in U}

\* if not results: ... "message": "No recommendations found ..."
RecommendationsMessage(rows) ==
    IF rows = <<>> THEN <<"No recommendations found matching your criteria">>
    ELSE <<>>

\* variant: an empty result answered as an error
RecommendationsResponse_EmptyIsError(user_name, results) ==
    IF results = <<>>
    THEN Response("error", 404, user_name, NoCriteria, <<>>)
    ELSE Response("recommendations", 200, user_name, NoCriteria, results)

\* the two jsonify(...) of get_recommendations: "status": "success" and the
\* records, "recommendations": [] when there is none
RecommendationsResponse(user_name, results) ==
    IF results = <<>>
    THEN Response("recommendations", 200, user_name, NoCriteria, <<>>)
    ELSE Response("recommendations", 200, user_name, NoCriteria, results)

\* main.py GET /recommendations/<user_name>
get_recommendations_main(user_name, tie, q) ==
    /\ IF Raised(q) # NULL
       THEN /\ scored' = {}
            /\ Fail("get_recommendations", Url(user_name), q,
                    "Failed to generate recommendations")
            /\ UNCHANGED users
       ELSE LET results == RecommendationsQuery(MatchUserByName(user_name), tie) IN
            /\ scored' = ScoredRows(MatchUserByName(user_name))
            /\ response' = RecommendationsResponse(user_name, results)
            /\ last' = Last("get_recommendations", Url(user_name),
                            RecommendationsMessage(results), <<>>, NoToken)
            /\ users' = AfterRecommendationQuery(MatchUserByName(user_name))
    /\ UNCHANGED <<restaurants, driver, authVars>>

\* backend.py GET /recommendations/<user_name>
get_recommendations_backend(user_name, tie, q) ==
    /\ IF Raised(q) # NULL
       THEN /\ scored' = {}
            /\ Fail("get_recommendations", Url(user_name), q,
                    "Failed to generate recommendations")
            /\ UNCHANGED users
       ELSE LET results == RecommendationsQuery(MatchUserByUsername(user_name), tie) IN
            /\ scored' = ScoredRows(MatchUserByUsername(user_name))
            /\ response' = RecommendationsResponse(user_name, results)
            /\ last' = Last("get_recommendations", Url(user_name),
                            RecommendationsMessage(results), <<>>, NoToken)
            /\ users' = AfterRecommendationQuery(MatchUserByUsername(user_name))
    /\ UNCHANGED <<restaurants, driver, authVars>>

\* main.py POST /recommendations/advanced
get_advanced_recommendations(data, tie, q) ==
    /\ scored' = {}
    /\ IF Raised(q) # NULL
       THEN Fail("get_advanced_recommendations", NoAuthorization, q,
                 "Failed to generate advanced recommendations")
       ELSE /\ response' = Response("advanced", 200, NULL, data, AdvancedQuery(data, tie))
            /\ last' = Last("get_advanced_recommendations", NoAuthorization,
                            <<>>, <<>>, NoToken)
    /\ UNCHANGED <<users, restaurants, driver, authVars>>

\* main.py POST /add_user
add_user(i, q) ==
    LET data == AddUserRequests[i] IN
    /\ scored' = {}
    /\ IF ~({"name", "age", "budget"} \subseteq data.keys)
       THEN /\ Reject("add_user", NoAuthorization, 400, <<"Missing required field">>)
            /\ UNCHANGED <<users, restaurants>>
       ELSE IF Raised(q) # NULL
       THEN /\ Fail("add_user", NoAuthorization, q, "Failed to add user")
            /\ UNCHANGED <<users, restaurants>>
       ELSE /\ Cardinality(users) < MaxUsers
            /\ users' = users \cup
                 { UserNode(NewId(users, i), data.name, NULL, data.budget,
                            Get(data, "has_pet", F), Get(data, "has_children", F),
                            Get(data, "needs_accessibility", F),
                            Get(data, "wants_promotions", F),
                            Get(data, "group_size", 2), {}, {}, {}) }
            /\ response' = Response("created", 200, data.name, NoCriteria, <<>>)
            /\ last' = Last("add_user", NoAuthorization, <<"User added successfully">>,
                            <<>>, NoToken)
            /\ UNCHANGED restaurants
    /\ UNCHANGED <<driver, authVars>>

\* main.py POST /add_restaurant
add_restaurant(i, q) ==
    LET data == AddRestaurantRequests[i] IN
    /\ scored' = {}
    /\ IF ~({"nombre", "precio_promedio"} \subseteq data.keys)
       THEN /\ Reject("add_restaurant", NoAuthorization, 400,
                      <<"Missing required field">>)
            /\ UNCHANGED <<users, restaurants>>
       ELSE IF Raised(q) # NULL
       THEN /\ Fail("add_restaurant", NoAuthorization, q, "Failed to add restaurant")
            /\ UNCHANGED <<users, restaurants>>
       ELSE /\ Cardinality(restaurants) < MaxRestaurants
            /\ restaurants' = restaurants \cup
                 { RestaurantNode(NewId(restaurants, i), data.precio_promedio,
                                  Get(data, "pet_friendly", F),
                                  Get(data, "juegos_ninos", F),
                                  Get(data, "accesible", F),
                                  Get(data, "promociones", F),
                                  Get(data, "capacidad", 50),
                                  Get(data, "nivel_servicio", 3), {}, {}, {}) }
            /\ response' = Response("created", 200, NULL, NoCriteria, <<>>)
            /\ last' = Last("add_restaurant", NoAuthorization,
                            <<"Restaurant added successfully">>, <<>>, NoToken)
            /\ UNCHANGED users
    /\ UNCHANGED <<driver, authVars>>

\* Personalised recommendations over a store that grows
Next ==
    \/ \E n \in UserNames, tie \in TieOrders, q \in QueryOutcomes :
          get_recommendations_main(n, tie, q)
    \/ \E n \in UserNames, tie \in TieOrders, q \in QueryOutcomes :
          get_recommendations_backend(n, tie, q)
    \/ \E i \in StoreUserBodies, q \in QueryOutcomes : add_user(i, q)
    \/ \E i \in StoreRestaurantBodies, q \in QueryOutcomes : add_restaurant(i, q)

Spec == Init /\ [][Next]_vars

\* Advanced (filter and sort) recommendations over a catalogue that grows
NextAdvanced ==
    \/ \E d \in AdvancedRequests, tie \in TieOrders, q \in QueryOutcomes :
          get_advanced_recommendations(d, tie, q)
    \/ \E i \in StoreRestaurantBodies, q \in QueryOutcomes : add_restaurant(i, q)

SpecAdvanced == Init /\ [][NextAdvanced]_vars

\* main.py over a database that starts empty: users who have the same name
\* (add_user does not look for an existing user) and the restaurants added
InitSameName ==
    /\ users = {}
    /\ restaurants = {}
    /\ response = NoResponse
    /\ scored = {}
    /\ last = NoRequest
    /\ driver = "connected"
    /\ tokens = {}
    /\ registering = Idle
    /\ ratings = {}

NextSameName ==
    \/ \E tie \in TieOrders, q \in QueryOutcomes : get_recommendations_main("ana", tie, q)
    \/ \E i \in SameNameUserBodies, q \in QueryOutcomes : add_user(i, q)
    \/ \E i \in SameNameRestaurantBodies, q \in QueryOutcomes : add_restaurant(i, q)

SpecSameName == InitSameName /\ [][NextSameName]_vars

\* Both kinds of recommendation request, over the empty or the imported
\* catalogue and the users added to the store
NextStore ==
    \/ \E n \in UserNames, tie \in TieOrders, q \in QueryOutcomes :
          get_recommendations_main(n, tie, q)
    \/ \E n \in UserNames, tie \in TieOrders, q \in QueryOutcomes :
          get_recommendations_backend(n, tie, q)
    \/ \E d \in AdvancedRequests, tie \in TieOrders, q \in QueryOutcomes :
          get_advanced_recommendations(d, tie, q)
    \/ \E i \in StoreUserBodies, q \in QueryOutcomes : add_user(i, q)

SpecStore == Init /\ [][NextStore]_vars

----------------------------------------------------------------------------
(* The scoring query on one user and one restaurant, over every value the     *)
(* properties it reads can take                                             *)

\* a user named "ana": every combination of the four flags (true, false, unset),
\* with no preference at all or with one of each kind
ScoreUsers ==
    { UserNode(<<0, 1>>, "ana", "ana", 20, m, n, a, p, 2, pr[1], pr[2], pr[3])
      : m \in Bool3, n \in Bool3, a \in Bool3, p \in Bool3,
        pr \in { <<{}, {}, {}>>, <<{"Italian"}, {"Romantic"}, {"Zona10"}>> } }

\* a restaurant priced at the user's budget, smaller than the group or not,
\* with every combination of the four flags and of the three relationships
ScoreRestaurants ==
    { RestaurantNode(<<0, 1>>, precio, pf, jn, ac, pm, cap, 3, cs, am, zs)
      : precio \in {20}, pf \in Bool3, jn \in Bool3, ac \in Bool3, pm \in Bool3,
        cap \in {1, 2},
        cs \in {{}, {"Italian"}}, am \in {{}, {"Romantic"}}, zs \in {{}, {"Zona10"}} }

InitScore ==
    /\ users \in {{u} : u \in ScoreUsers}
    /\ restaurants \in {{r} : r \in ScoreRestaurants}
    /\ response = NoResponse
    /\ scored = {}
    /\ last = NoRequest
    /\ driver = "connected"
    /\ tokens = {}
    /\ registering = Idle
    /\ ratings = {}

\* the query runs: the store answers
NextScore ==
    \/ get_recommendations_main("ana", "asc", "ok")
    \/ get_recommendations_backend("ana", "asc", "ok")

SpecScore == InitScore /\ [][NextScore]_vars

----------------------------------------------------------------------------
(* backend.py: texts, validation, password hashes and tokens *)

\* the characters of the texts that requests carry
Chars ==
    [ t \in {"eva", "Eva", "leo", "e@m.io", "E@M.io", "x@m.io", "em.io",
             "secret12", "secret34", "short1"} |->
        CASE t = "eva" -> <<"e", "v", "a">>
          [] t = "Eva" -> <<"E", "v", "a">>
          [] t = "leo" -> <<"l", "e", "o">>
          [] t = "e@m.io" -> <<"e", "@", "m", ".", "i", "o">>
          [] t = "E@M.io" -> <<"E", "@", "M", ".", "i", "o">>
          [] t = "x@m.io" -> <<"x", "@", "m", ".", "i", "o">>
          [] t = "em.io" -> <<"e", "m", ".", "i", "o">>
          [] t = "secret12" -> <<"s", "e", "c", "r", "e", "t", "1", "2">>
          [] t = "secret34" -> <<"s", "e", "c", "r", "e", "t", "3", "4">>
          [] t = "short1" -> <<"s", "h", "o", "r", "t", "1">> ]

Texts == DOMAIN Chars

UpperCase == {"E", "M"}
LowerCase == {"a", "c", "e", "h", "i", "l", "m", "o", "r", "s", "t", "v", "x"}
Letters == UpperCase \cup LowerCase
Digits == {"1", "2", "3", "4"}

LowerChar(c) ==
    CASE c = "E" -> "e" [] c = "M" -> "m" [] OTHER -> c

\* str.lower()
Lower(t) == CHOOSE l \in Texts : Chars[l] = [i \in DOMAIN Chars[t] |-> LowerChar(Chars[t][i])]

\* validate_email: ^[a-zA-Z0-9._%+-]+@[a-zA-Z0-9.-]+\.[a-zA-Z]{2,}$
validate_email(email) ==
    LET c == Chars[email]
        local == Letters \cup Digits \cup {".", "_", "%", "+", "-"}
        domain == Letters \cup Digits \cup {".", "-"}
    IN  \E at \in DOMAIN c, dot \in DOMAIN c :
            /\ c[at] = "@" /\ c[dot] = "."
            /\ 1 < at /\ at + 1 < dot /\ dot + 2 <= Len(c)
            /\ \A i \in 1..(at - 1) : c[i] \in local
            /\ \A i \in (at + 1)..(dot - 1) : c[i] \in domain
            /\ \A i \in (dot + 1)..Len(c) : c[i] \in Letters

MinPasswordLength == 8

\* validate_password: at least 8 characters, a letter and a digit
validate_password(password) ==
    LET c == Chars[password] IN
    /\ Len(c) >= MinPasswordLength
    /\ \E i \in DOMAIN c : c[i] \in Letters
    /\ \E i \in DOMAIN c : c[i] \in Digits

\* validate_password: the message returned with False
password_message(password) ==
    LET c == Chars[password] IN
    IF Len(c) < MinPasswordLength THEN "Password must be at least 8 characters long"
    ELSE IF ~\E i \in DOMAIN c : c[i] \in Letters
    THEN "Password must contain at least one letter"
    ELSE "Password must contain at least one number"

\* hash_password / verify_password (bcrypt): the digest verifies exactly the
\* password it was made from
hash_password(password) == [bcrypt |-> password]
verify_password(password, hashed) == hashed.bcrypt = password

\* a node property that is not set reads as null
Prop(u, k) == IF k \in DOMAIN u THEN u[k] ELSE NULL

\* generate_jwt_token: the claims of the signed token
generate_jwt_token(user_data) ==
    [kind |-> "jwt", user_id |-> user_data.id, username |-> user_data.username]

\* An Authorization header: the token signed by the server (or any other
\* text), with or without the "Bearer " prefix, presented before or after
\* its exp.
Authorization(scheme, token, expired) ==
    [scheme |-> scheme, token |-> token, expired |-> expired]

Garbage == [kind |-> "garbage"]

\* the headers a client can send
Authorizations ==
    {NoAuthorization, Authorization("Bearer", Garbage, FALSE)}
    \cup {Authorization("Bearer", t, e) : t \in tokens, e \in BOOLEAN}
    \cup {Authorization("", t, FALSE) : t \in tokens}

\* verify_jwt_token: the payload, or NULL (None) when the signature or the
\* exp claim does not verify
verify_jwt_token(authorization) ==
    IF authorization.token.kind = "jwt" /\ ~authorization.expired
    THEN authorization.token ELSE NoToken

\* variant: the exp claim not verified
token_required_IgnoreExp(authorization) ==
    IF authorization = NoAuthorization
    THEN [status |-> 401, message |-> <<"Token is missing">>]
    ELSE IF authorization.token.kind # "jwt"
    THEN [status |-> 401, message |-> <<"Token is invalid or expired">>]
    ELSE [status |-> 200, message |-> <<>>]

\* token_required: what the decorator answers by itself (status 200: it calls
\* the handler with request.current_user set)
token_required(authorization) ==
    IF authorization = NoAuthorization
    THEN [status |-> 401, message |-> <<"Token is missing">>]
    ELSE IF verify_jwt_token(authorization) = NoToken
    THEN [status |-> 401, message |-> <<"Token is invalid or expired">>]
    ELSE [status |-> 200, message |-> <<>>]

----------------------------------------------------------------------------
(* backend.py: POST /auth/register *)

RegisterBody(keys, username, email, password, name, age, budget) ==
    [keys |-> keys, username |-> username, email |-> email, password |-> password,
     name |-> name, age |-> age, budget |-> budget]

AllRegisterKeys == {"username", "email", "password", "name", "age", "budget"}

\* bodies POSTed to /auth/register
RegisterRequests ==
    << RegisterBody(AllRegisterKeys, "eva", "e@m.io", "secret12", "Eva", 30, 25),
       RegisterBody(AllRegisterKeys, "Eva", "x@m.io", "secret12", "Eva", 30, 25),
       RegisterBody(AllRegisterKeys, "leo", "E@M.io", "secret12", "Leo", 30, -5),
       RegisterBody(AllRegisterKeys \ {"email"}, "leo", "", "secret12", "Leo", 30, 25),
       RegisterBody(AllRegisterKeys, "leo", "em.io", "secret12", "Leo", 30, 25),
       RegisterBody(AllRegisterKeys, "leo", "x@m.io", "short1", "Leo", 30, 25),
       RegisterBody(AllRegisterKeys, "leo", "x@m.io", "secret12", "Leo", 30, 0),
       RegisterBody(AllRegisterKeys, "x@m.io", "E@M.io", "secret34", "Leo", 30, 25) >>

\* the bodies of the account specifications, and those of the login
\* specification: body 8 has for username the text body 2 has for email
AccountRegisterBodies == 1..7
LoginRegisterBodies == {1, 2, 8}

required_fields == <<"username", "email", "password", "name", "age", "budget">>

\* field not in data or not data[field]
MissingField(data, field) ==
    \/ field \notin data.keys
    \/ IF field \in {"age", "budget"} THEN data[field] = 0 ELSE data[field] = ""

\* the first required field that is missing, NULL when there is none
FirstMissingField(data) ==
    LET missing == {i \in DOMAIN required_fields : MissingField(data, required_fields[i])}
    IN  IF missing = {} THEN NULL
        ELSE required_fields[CHOOSE i \in missing : \A j \in missing : i <= j]

\* check_query: MATCH (u:User) WHERE u.username = $username OR u.email = $email
ExistingUsers(data) ==
    {u \in users :
        Holds(CypherOr(CypherEq(Prop(u, "username"), Lower(data.username)),
                       CypherEq(Prop(u, "email"), Lower(data.email))))}

\* ids of the nodes created by register request i
RegisterOrigin == 10

\* create_query: CREATE (u:User {id: randomUUID(), username: ..., is_active: true, ...})
RegisteredNode(i) ==
    LET data == RegisterRequests[i] IN
    UserNode(NewId(users, RegisterOrigin + i), data.name, Lower(data.username),
             data.budget, Get(data, "has_pet", F), Get(data, "has_children", F),
             Get(data, "needs_accessibility", F), Get(data, "wants_promotions", F),
             Get(data, "group_size", 2), {}, {}, {})
    @@ [email |-> Lower(data.email), password_hash |-> hash_password(data.password),
        is_active |-> T]

InFlight == Cardinality({c \in Clients : registering[c] # 0})

\* variant: the check written as a MERGE, which creates the node it looks for
CheckQueryCreates_Merge(i) == {RegisteredNode(i)}

\* check_query is MATCH ... WHERE ... RETURN: it creates no node
CheckQueryCreates(i) == {}

\* register up to and including the check query: the validations, then
\* db.execute_query(check_query, ...).  A request that passes leaves the
\* handler between its two queries.
register_check(c, i, q) ==
    LET data == RegisterRequests[i] IN
    /\ registering[c] = 0
    /\ Cardinality(users) + InFlight < MaxUsers
    /\ scored' = {}
    /\ IF FirstMissingField(data) # NULL
       THEN /\ Reject("register", NoAuthorization, 400,
                      <<"Missing required field", FirstMissingField(data)>>)
            /\ UNCHANGED <<users, registering>>
       ELSE IF ~validate_email(data.email)
       THEN /\ Reject("register", NoAuthorization, 400, <<"Invalid email format">>)
            /\ UNCHANGED <<users, registering>>
       ELSE IF ~validate_password(data.password)
       THEN /\ Reject("register", NoAuthorization, 400,
                      <<password_message(data.password)>>)
            /\ UNCHANGED <<users, registering>>
       ELSE IF Raised(q) # NULL
       THEN /\ Fail("register", NoAuthorization, q, "Registration failed")
            /\ UNCHANGED <<users, registering>>
       ELSE IF ExistingUsers(data) # {}
       THEN /\ \E existing_user \in ExistingUsers(data) :
                  Reject("register", NoAuthorization, 409,
                         IF Holds(CypherEq(Prop(existing_user, "username"),
                                           Lower(data.username)))
                         THEN <<"Username already exists">>
                         ELSE <<"Email already exists">>)
            /\ users' = users \cup CheckQueryCreates(i)
            /\ UNCHANGED registering
       ELSE /\ registering' = [registering EXCEPT ![c] = i]
            /\ users' = users \cup CheckQueryCreates(i)
            /\ UNCHANGED <<response, last>>
    /\ UNCHANGED <<restaurants, driver, tokens, ratings>>

\* register from hash_password on: db.execute_query(create_query, ...), the
\* token, the 201 answer
register_create(c, q) ==
    /\ registering[c] # 0
    /\ registering' = [registering EXCEPT ![c] = 0]
    /\ scored' = {}
    /\ IF Raised(q) # NULL
       THEN /\ Fail("register", NoAuthorization, q, "Registration failed")
            /\ UNCHANGED <<users, tokens>>
       ELSE LET u == RegisteredNode(registering[c]) IN
            /\ users' = users \cup {u}
            /\ tokens' = tokens \cup {generate_jwt_token(u)}
            /\ response' = Response("registered", 201, u.username, NoCriteria, <<>>)
            /\ last' = Last("register", NoAuthorization,
                            <<"User registered successfully">>, <<>>,
                            generate_jwt_token(u))
    /\ UNCHANGED <<restaurants, driver, ratings>>

----------------------------------------------------------------------------
(* backend.py: POST /auth/login *)

LoginBody(keys, username, password) ==
    [keys |-> keys, username |-> username, password |-> password]

\* bodies POSTed to /auth/login
LoginRequests ==
    << LoginBody({"username", "password"}, "eva", "secret12"),
       LoginBody({"username", "password"}, "Eva", "secret12"),
       LoginBody({"username", "password"}, "E@M.io", "secret12"),
       LoginBody({"username", "password"}, "x@m.io", "secret12"),
       LoginBody({"username", "password"}, "x@m.io", "secret34"),
       LoginBody({"username", "password"}, "eva", "secret34"),
       LoginBody({"username", "password"}, "leo", "secret12"),
       LoginBody({"username"}, "eva", "") >>

\* what a login request addressed the handler with
Credentials(data) ==
    [scheme |-> "none", username |-> data.username, password |-> data.password]

\* MATCH (u:User) WHERE (u.username = $login OR u.email = $login)
\*                      AND u.is_active = true
MatchLogin(login) ==
    {u \in users :
        Holds(CypherAnd(CypherOr(CypherEq(Prop(u, "username"), login),
                                 CypherEq(Prop(u, "email"), login)),
                        CypherEq(Prop(u, "is_active"), T)))}

\* SET u.last_login = datetime(), u.updated_at = datetime(): the node has a
\* last login
SetLastLogin(u) ==
    [k \in DOMAIN u \cup {"last_login"} |-> IF k = "last_login" THEN T ELSE u[k]]

\* login.  user = users[0] is any row of a MATCH that has no ORDER BY; q is the
\* outcome of the MATCH, q2 that of the update of last_login.
login(i, q, q2) ==
    LET data == LoginRequests[i] IN
    /\ scored' = {}
    /\ IF \/ "username" \notin data.keys \/ data.username = ""
          \/ "password" \notin data.keys \/ data.password = ""
       THEN /\ Reject("login", Credentials(data), 400,
                      <<"Username and password are required">>)
            /\ UNCHANGED <<users, tokens>>
       ELSE IF Raised(q) # NULL
       THEN /\ Fail("login", Credentials(data), q, "Login failed")
            /\ UNCHANGED <<users, tokens>>
       ELSE IF MatchLogin(Lower(data.username)) = {}
       THEN /\ Reject("login", Credentials(data), 401, <<"Invalid username or password">>)
            /\ UNCHANGED <<users, tokens>>
       ELSE \E user \in MatchLogin(Lower(data.username)) :
               IF ~verify_password(data.password, user.password_hash)
               THEN /\ Reject("login", Credentials(data), 401,
                              <<"Invalid username or password">>)
                    /\ UNCHANGED <<users, tokens>>
               ELSE IF Raised(q2) # NULL
               THEN /\ Fail("login", Credentials(data), q2, "Login failed")
                    /\ UNCHANGED <<users, tokens>>
               ELSE /\ users' = (users \ {user}) \cup {SetLastLogin(user)}
                    /\ tokens' = tokens \cup {generate_jwt_token(user)}
                    /\ response' = Response("login", 200, user.username, NoCriteria,
                                            <<user.id>>)
                    /\ last' = Last("login", Credentials(data), <<"Login successful">>,
                                    <<>>, generate_jwt_token(user))
    /\ UNCHANGED <<restaurants, driver, registering, ratings>>

----------------------------------------------------------------------------
(* backend.py and recomendaciones.py: the endpoints behind token_required *)

\* backend.py POST /auth/logout
logout(a) ==
    /\ IF token_required(a).status = 401
       THEN Reject("logout", a, 401, token_required(a).message)
       ELSE /\ response' = Response("logout", 200, NULL, NoCriteria, <<>>)
            /\ last' = Last("logout", a, <<"Logged out successfully">>, <<>>, NoToken)
    /\ scored' = {}
    /\ UNCHANGED <<users, restaurants, driver, authVars>>

\* MATCH (u:User {id: $user_id})
MatchUserById(user_id) == {u \in users : u.id = user_id}

\* backend.py GET /auth/profile
get_profile(a, q) ==
    /\ IF token_required(a).status = 401
       THEN Reject("get_profile", a, 401, token_required(a).message)
       ELSE IF Raised(q) # NULL
       THEN Fail("get_profile", a, q, "Failed to get profile")
       ELSE IF MatchUserById(verify_jwt_token(a).user_id) = {}
       THEN Reject("get_profile", a, 404, <<"User not found">>)
       ELSE \E u \in MatchUserById(verify_jwt_token(a).user_id) :
               /\ response' = Response("profile", 200, Prop(u, "username"),
                                       NoCriteria, <<u.id>>)
               /\ last' = Last("get_profile", a, <<>>, <<>>, NoToken)
    /\ scored' = {}
    /\ UNCHANGED <<users, restaurants, driver, authVars>>

\* Python values of a parsed JSON body: str, int, bool, None.  A dict is the
\* sequence of its (key, value) items in insertion order, keys unique.
Str(t) == [str |-> t]
Num(n) == [num |-> n]
Bool(b) == [bool |-> b]
None == [none |-> TRUE]

\* A JSON text is the sequence of its tokens: punctuation, quoted strings,
\* numbers and the literals true, false, null.
Token(kind, text) == [tok |-> kind, text |-> text]

MaxNumber == 9

\* variant: every scalar written as a quoted string (str(v))
ScalarToken_Quoted(v) ==
    IF "str" \in DOMAIN v THEN Token("string", v.str)
    ELSE IF "num" \in DOMAIN v THEN Token("string", ToString(v.num))
    ELSE IF "bool" \in DOMAIN v THEN Token("string", IF v.bool THEN "True" ELSE "False")
    ELSE Token("string", "None")

\* json.dumps of a scalar
ScalarToken(v) ==
    IF "str" \in DOMAIN v THEN Token("string", v.str)
    ELSE IF "num" \in DOMAIN v THEN Token("number", ToString(v.num))
    ELSE IF "bool" \in DOMAIN v THEN Token("literal", IF v.bool THEN "true" ELSE "false")
    ELSE Token("literal", "null")

\* json.loads of a scalar token
ScalarValue(t) ==
    IF t.tok = "string" THEN Str(t.text)
    ELSE IF t.tok = "number" THEN Num(CHOOSE n \in 0..MaxNumber : ToString(n) = t.text)
    ELSE IF t.text = "true" THEN Bool(TRUE)
    ELSE IF t.text = "false" THEN Bool(FALSE)
    ELSE None

RECURSIVE DumpItems(_, _)
DumpItems(items, i) ==
    IF i > Len(items) THEN <<>>
    ELSE (IF i > 1 THEN <<Token("punct", ",")>> ELSE <<>>)
         \o <<Token("string", items[i][1]), Token("punct", ":"), ScalarToken(items[i][2])>>
         \o DumpItems(items, i + 1)

\* json.dumps(preferences) of a dict of scalars
json_dumps(value) ==
    <<Token("punct", "{")>> \o DumpItems(value, 1) \o <<Token("punct", "}")>>

\* the items read from position i of a JSON object text on; a key met again
\* replaces the earlier item
RECURSIVE LoadItems(_, _, _)
LoadItems(text, i, items) ==
    IF text[i] = Token("punct", "}") THEN items
    ELSE IF text[i] = Token("punct", ",") THEN LoadItems(text, i + 1, items)
    ELSE LET key == text[i].text
             item == <<key, ScalarValue(text[i + 2])>>
             kept == SelectSeq(items, LAMBDA x : x[1] # key)
         IN  LoadItems(text, i + 3, Append(kept, item))

\* json.loads(prefs) of a JSON object text
json_loads(text) == LoadItems(text, 2, <<>>)

\* the maps sent as "preferences"; a body without the key reads as {}
EmptyMap == <<>>
PreferenceMaps ==
    { EmptyMap,
      << <<"theme", Str("dark")>>, <<"vegan", Bool(TRUE)>> >>,
      << <<"theme", Str("true")>>, <<"max", Num(3)>>, <<"note", None>> >> }

\* SET u.preferences = $preferences
SetPreferences(u, text) == [preferences |-> text] @@ [k \in DOMAIN u \ {"preferences"} |-> u[k]]

\* get_preferences: prefs, the value of "preferences" in the answer for the
\* user of the token: None without a row or without the property, the stored
\* text itself when it is empty (falsy), json.loads of it otherwise
get_preferences_prefs(user_id) ==
    LET result == MatchUserById(user_id) IN
    IF result = {} THEN None
    ELSE LET u == CHOOSE x \in result : TRUE IN
         IF "preferences" \notin DOMAIN u THEN None
         ELSE IF u.preferences = <<>> THEN Str("")
         ELSE json_loads(u.preferences)

\* recomendaciones.py POST /preferences
save_preferences(a, preferences, q) ==
    /\ IF token_required(a).status = 401
       THEN /\ Reject("save_preferences", a, 401, token_required(a).message)
            /\ UNCHANGED users
       ELSE IF Raised(q) # NULL
       THEN /\ Fail("save_preferences", a, q, "Error al guardar preferencias")
            /\ UNCHANGED users
       ELSE LET user_id == verify_jwt_token(a).user_id
                matched == MatchUserById(user_id)
                result == {SetPreferences(u, json_dumps(preferences)) : u \in matched}
            IN  /\ users' = (users \ matched) \cup result
                /\ IF result = {}
                   THEN \* result[0] raises IndexError, caught by except Exception
                        LET err == handle_error("list index out of range",
                                                "Error al guardar preferencias") IN
                        /\ response' = Response("error", err.status, NULL, NoCriteria, <<>>)
                        /\ last' = Last("save_preferences", a, err.message, err.logged,
                                        NoToken)
                   ELSE \E u \in result :
                           /\ response' = Response("preferences", 200,
                                                   Prop(u, "username"), NoCriteria,
                                                   <<u.preferences>>)
                           /\ last' = Last("save_preferences", a, <<>>, <<>>, NoToken)
                                      @@ [body |-> preferences]
    /\ scored' = {}
    /\ UNCHANGED <<restaurants, driver, authVars>>

\* recomendaciones.py GET /preferences
get_preferences(a, q) ==
    /\ IF token_required(a).status = 401
       THEN Reject("get_preferences", a, 401, token_required(a).message)
       ELSE IF Raised(q) # NULL
       THEN Fail("get_preferences", a, q, "Error al obtener preferencias")
       ELSE LET user_id == verify_jwt_token(a).user_id
                result == MatchUserById(user_id)
            IN
            /\ response' =
                  IF result = {}
                  THEN Response("preferences", 200, NULL, NoCriteria,
                                <<get_preferences_prefs(user_id)>>)
                  ELSE LET u == CHOOSE x \in result : TRUE IN
                       Response("preferences", 200, Prop(u, "username"),
                                NoCriteria, <<get_preferences_prefs(user_id)>>)
            /\ last' = Last("get_preferences", a, <<>>, <<>>, NoToken)
    /\ scored' = {}
    /\ UNCHANGED <<users, restaurants, driver, authVars>>

----------------------------------------------------------------------------
(* main.py: GET /users/<user_name> and PUT /users/<user_name>/preferences *)

\* main.py GET /users/<user_name>
get_user_details(user_name, q) ==
    /\ IF Raised(q) # NULL
       THEN Fail("get_user_details", Url(user_name), q, "Failed to fetch user details")
       ELSE IF MatchUserByName(user_name) = {}
       THEN Reject("get_user_details", Url(user_name), 404, <<"User not found">>)
       ELSE \E u \in MatchUserByName(user_name) :
               /\ response' = Response("user", 200, u.name, NoCriteria, <<u.id>>)
               /\ last' = Last("get_user_details", Url(user_name), <<>>, <<>>, NoToken)
    /\ scored' = {}
    /\ UNCHANGED <<users, restaurants, driver, authVars>>

UpdateBody(keys, budget, has_pet) == [keys |-> keys, budget |-> budget, has_pet |-> has_pet]

\* bodies PUT to /users/<user_name>/preferences
UpdateRequests ==
    << UpdateBody({"budget"}, 40, F),
       UpdateBody({"budget", "has_pet"}, -5, NULL),
       UpdateBody({}, 0, F) >>

\* the fields of the body that are in updatable_fields
SetClauses(data) == data.keys \cap {"budget", "has_pet"}

\* SET u.budget = $budget, u.tiene_mascota = $has_pet: the fields given
UpdatedNode(u, data) ==
    [u EXCEPT !.budget = IF "budget" \in SetClauses(data) THEN data.budget ELSE @,
              !.tiene_mascota = IF "has_pet" \in SetClauses(data) THEN data.has_pet ELSE @]

\* main.py PUT /users/<user_name>/preferences
update_user_preferences(user_name, i, q) ==
    LET data == UpdateRequests[i] IN
    /\ IF SetClauses(data) = {}
       THEN /\ Reject("update_user_preferences", Url(user_name), 400,
                      <<"No valid fields to update">>)
            /\ UNCHANGED users
       ELSE IF Raised(q) # NULL
       THEN /\ Fail("update_user_preferences", Url(user_name), q,
                    "Failed to update user preferences")
            /\ UNCHANGED users
       ELSE LET matched == MatchUserByName(user_name) IN
            /\ users' = (users \ matched) \cup {UpdatedNode(u, data) : u \in matched}
            /\ IF matched = {}
               THEN Reject("update_user_preferences", Url(user_name), 404,
                           <<"User not found">>)
               ELSE /\ response' = Response("updated", 200, user_name, NoCriteria, <<>>)
                    /\ last' = Last("update_user_preferences", Url(user_name),
                                    <<"Preferences updated for user", user_name>>,
                                    <<>>, NoToken)
    /\ scored' = {}
    /\ UNCHANGED <<restaurants, driver, authVars>>

----------------------------------------------------------------------------
(* The accounts: registration, the token-protected endpoints, the user       *)
(* endpoints of main.py                                                      *)

\* a token signed less than 24 hours ago for a user of a database that has
\* been reloaded since (the import assigns new ids)
StaleToken == [kind |-> "jwt", user_id |-> <<0, 9>>, username |-> "leo"]

\* Registration alone: concurrent /auth/register requests
InitRegister ==
    /\ users \in {{}, SeedUsers}
    /\ restaurants = SeedRestaurants
    /\ response = NoResponse
    /\ scored = {}
    /\ last = NoRequest
    /\ driver \in {"connected", NULL}
    /\ tokens = {}
    /\ registering = Idle
    /\ ratings = {}

NextRegister ==
    \/ \E c \in Clients, i \in AccountRegisterBodies, q \in QueryOutcomes :
          register_check(c, i, q)
    \/ \E c \in Clients, q \in QueryOutcomes : register_create(c, q)

SpecRegister == InitRegister /\ [][NextRegister]_vars

\* Registration by one client at a time, and login
NextLogin ==
    \/ \E i \in LoginRegisterBodies, q \in QueryOutcomes : register_check(1, i, q)
    \/ \E q \in QueryOutcomes : register_create(1, q)
    \/ \E i \in DOMAIN LoginRequests, q \in QueryOutcomes, q2 \in QueryOutcomes :
          login(i, q, q2)

SpecLogin == InitRegister /\ [][NextLogin]_vars

\* names and usernames asked for in the URL
AccountNames == {"ana", "Eva", "nadie"}

\* The three ways a User node is written, and GET /users/<user_name>
NextAccounts ==
    \/ \E i \in AccountRegisterBodies, q \in QueryOutcomes : register_check(1, i, q)
    \/ \E q \in QueryOutcomes : register_create(1, q)
    \/ \E i \in StoreUserBodies, q \in QueryOutcomes : add_user(i, q)
    \/ \E n \in AccountNames, i \in DOMAIN UpdateRequests, q \in QueryOutcomes :
          update_user_preferences(n, i, q)
    \/ \E n \in AccountNames, q \in QueryOutcomes : get_user_details(n, q)

SpecAccounts == InitRegister /\ [][NextAccounts]_vars

\* The endpoints of backend.py and recomendaciones.py addressed to the user of
\* a token or of a username, with the registrations that issue the tokens
InitTokens ==
    /\ users \in {{}, SeedUsers}
    /\ restaurants = SeedRestaurants
    /\ response = NoResponse
    /\ scored = {}
    /\ last = NoRequest
    /\ driver \in {"connected", NULL}
    /\ tokens \in {{}, {StaleToken}}
    /\ registering = Idle
    /\ ratings = {}

NextTokens ==
    \/ \E i \in AccountRegisterBodies, q \in QueryOutcomes : register_check(1, i, q)
    \/ \E q \in QueryOutcomes : register_create(1, q)
    \/ \E a \in Authorizations : logout(a)
    \/ \E a \in Authorizations, q \in QueryOutcomes : get_profile(a, q)
    \/ \E a \in Authorizations, p \in PreferenceMaps, q \in QueryOutcomes :
          save_preferences(a, p, q)
    \/ \E a \in Authorizations, q \in QueryOutcomes : get_preferences(a, q)
    \/ \E n \in {"eva", "nadie"}, q \in QueryOutcomes :
          get_recommendations_backend(n, "asc", q)

SpecTokens == InitTokens /\ [][NextTokens]_vars

----------------------------------------------------------------------------
(* Ratings: the RATED edges and the Rating Aggregator (spec.md sections 3,    *)
(* 4.4 and 7; the handlers are not in src/)                                  *)

\* a RATED edge from a user to a restaurant
RatingEdge(id, user, restaurant, score) ==
    [id |-> id, user |-> user, restaurant |-> restaurant, score |-> score]

MinRating == 1
MaxRating == 5

RatedBy(user, restaurant) == {e \in ratings : e.user = user /\ e.restaurant = restaurant}

\* variant: every rating written as a new edge
UpsertRating_Create(user, restaurant, score) ==
    ratings \cup {RatingEdge(1 + Cardinality(ratings), user, restaurant, score)}

\* upsert: a repeat rating replaces the score of the edge, a first rating
\* creates the edge
UpsertRating(user, restaurant, score) ==
    IF RatedBy(user, restaurant) # {}
    THEN {IF e \in RatedBy(user, restaurant) THEN [e EXCEPT !.score = score] ELSE e
          : e \in ratings}
    ELSE ratings \cup {RatingEdge(1 + Cardinality(ratings), user, restaurant, score)}

RatingRequest(user, restaurant, score) ==
    [scheme |-> "none", user |-> user, restaurant |-> restaurant, score |-> score]

\* rate a restaurant: ValidationError outside 1..5, NotFound for an unknown
\* user or restaurant, else the upsert (the answer tells which score, if any,
\* the rating replaced)
rate_restaurant(user, restaurant, score) ==
    /\ IF score < MinRating \/ score > MaxRating
       THEN /\ Reject("rate_restaurant", RatingRequest(user, restaurant, score), 400,
                      <<"Rating must be between 1 and 5">>)
            /\ UNCHANGED ratings
       ELSE IF MatchUserById(user) = {} \/ {r \in restaurants : r.id = restaurant} = {}
       THEN /\ Reject("rate_restaurant", RatingRequest(user, restaurant, score), 404,
                      <<"Not found">>)
            /\ UNCHANGED ratings
       ELSE /\ ratings' = UpsertRating(user, restaurant, score)
            /\ response' = Response("rated", 200, NULL, NoCriteria,
                                    <<[replaced |-> {e.score : e \in RatedBy(user, restaurant)}]>>)
            /\ last' = Last("rate_restaurant", RatingRequest(user, restaurant, score),
                            <<>>, <<>>, NoToken)
    /\ scored' = {}
    /\ UNCHANGED <<users, restaurants, driver, tokens, registering>>

RECURSIVE SumScores(_)
SumScores(edges) ==
    IF edges = {} THEN 0
    ELSE LET e == CHOOSE x \in edges : TRUE IN e.score + SumScores(edges \ {e})

\* the mean in hundredths, rounded to two decimals
RoundedMean(sum, count) == (200 * sum + count) \div (2 * count)

\* (average, count) over the RATED edges that target the restaurant; the
\* average is absent when there is no rating
RatingAggregate(restaurant) ==
    LET edges == {e \in ratings : e.restaurant = restaurant} IN
    [restaurant |-> restaurant,
     count |-> Cardinality(edges),
     rated |-> edges # {},
     average_x100 |-> IF edges = {} THEN 0
                      ELSE RoundedMean(SumScores(edges), Cardinality(edges))]

\* the Rating Aggregator asked for a restaurant
get_restaurant_rating(restaurant) ==
    /\ response' = Response("rating", 200, NULL, NoCriteria,
                            <<RatingAggregate(restaurant)>>)
    /\ last' = Last("get_restaurant_rating", RatingRequest(NULL, restaurant, 0),
                    <<>>, <<>>, NoToken)
    /\ scored' = {}
    /\ UNCHANGED <<users, restaurants, driver, authVars>>

\* the users, restaurants and scores of the rating requests
RatingUsers == {<<0, 1>>, <<0, 2>>, <<0, 9>>}
RatingRestaurants == {<<0, 1>>, <<0, 2>>, <<0, 9>>}
RatingScores == {0, 2, 5, 6}

InitRatings ==
    /\ users = SeedUsers
    /\ restaurants = SeedRestaurants
    /\ response = NoResponse
    /\ scored = {}
    /\ last = NoRequest
    /\ driver = "connected"
    /\ tokens = {}
    /\ registering = Idle
    /\ ratings = {}

NextRatings ==
    \/ \E u \in RatingUsers, r \in RatingRestaurants, sc \in RatingScores :
          rate_restaurant(u, r, sc)
    \/ \E r \in RatingRestaurants : get_restaurant_rating(r)

SpecRatings == InitRatings /\ [][NextRatings]_vars

----------------------------------------------------------------------------
(* Properties of the scoring query *)

IsRecommendations == response.kind = "recommendations"
IsAdvanced == response.kind = "advanced"

\* The criteria table of the compatibility scorer, read on the stored records:
\* a flag counts as set exactly when the record carries it as true.
Is(flag) == flag = T

TableMatch(prefs, has, points) == IF prefs \cap has # {} THEN points ELSE 0

TableFlag(userFlag, restaurantFlag, points) ==
    IF Is(userFlag) /\ Is(restaurantFlag) THEN points
    ELSE IF Is(userFlag) /\ ~Is(restaurantFlag) THEN -points
    ELSE 0

TableScore(u, r) ==
    TableMatch(u.prefers, r.has_category, 2)
    + TableMatch(u.likes_ambiance, r.has_ambiance, 2)
    + TableMatch(u.prefers_zone, r.located_in, 1)
    + TableFlag(u.tiene_mascota, r.pet_friendly, 1)
    + TableFlag(u.tiene_ninos, r.juegos_ninos, 1)
    + TableFlag(u.necesita_accesibilidad, r.accesible, 2)
    + (IF Is(u.desea_promociones) /\ Is(r.promociones) THEN 1 ELSE 0)
    + (IF r.capacidad >= u.cantidad_personas THEN 0 ELSE -3)

\* C1: the score get_recommendations computes for a user and a restaurant
\* within the user's budget is the sum of the eight contributions of the table.
C1_ScoreIsTableSum ==
    \A s \in scored : s.total_score = TableScore(UserById(s.u), RestaurantById(s.r))

\* C2: every score get_recommendations computes lies in [-10, 10].
C2_ScoreInRange ==
    \A s \in scored : s.total_score >= -10 /\ s.total_score <= 10

C2_Witness == \E s \in scored : s.total_score = 10

\* C7: a user whose has_pet is false gets pet contribution 0 from a restaurant
\* that is not pet friendly, and the pet contribution is -1 only for a user who
\* has a pet at a restaurant that is not pet friendly.
C7_PetPenaltyOnlyWithPet ==
    \A s \in scored :
        LET u == UserById(s.u)
            r == RestaurantById(s.r)
        IN  /\ (u.tiene_mascota = F /\ ~Is(r.pet_friendly)) => s.pet_score = 0
            /\ s.pet_score = -1 => (Is(u.tiene_mascota) /\ ~Is(r.pet_friendly))

\* C8: the capacity contribution is 0 when the restaurant's capacity is at
\* least the user's group size and -3 otherwise, and never another value.
C8_CapacityZeroOrMinusThree ==
    \A s \in scored :
        LET u == UserById(s.u)
            r == RestaurantById(s.r)
        IN  /\ s.capacity_score \in {0, -3}
            /\ s.capacity_score = 0 <=> r.capacidad >= u.cantidad_personas

C8_Witness ==
    /\ \E s \in scored : s.capacity_score = -3
    /\ \E r \in restaurants, u \in users : r.capacidad < u.cantidad_personas

----------------------------------------------------------------------------
(* Properties of the ranked list *)

Rows == response.rows

\* (restaurant, score) pairs of the last query that reach the threshold
Qualifying == {<<s.r, s.total_score>> : s \in {x \in scored : x.total_score >= 1}}

\* C3: every entry get_recommendations returns has score >= 1, and a candidate
\* whose score is 0 or negative is not among the entries.
C3_NoEntryBelowThreshold ==
    IsRecommendations =>
        /\ \A i \in 1..Len(Rows) : Rows[i].compatibility_score >= 1
        /\ \A s \in scored :
              s.total_score < 1 =>
                  ~\E i \in 1..Len(Rows) :
                      /\ Rows[i].restaurant_id = s.r
                      /\ Rows[i].compatibility_score = s.total_score

\* a list was returned while a candidate with a pet conflict and a capacity
\* shortfall, and one scoring exactly 0, were left out
C3_Witness ==
    /\ IsRecommendations
    /\ Len(Rows) > 0
    /\ \E s \in scored : s.pet_score = -1 /\ s.capacity_score = -3 /\ s.total_score < 1
    /\ \E s \in scored : s.total_score = 0

\* C4: the entries come by score descending and, at equal score, by price
\* ascending.
C4_SortedByScoreThenPrice ==
    IsRecommendations =>
        \A i \in 1..(Len(Rows) - 1) :
            \/ Rows[i].compatibility_score > Rows[i + 1].compatibility_score
            \/ /\ Rows[i].compatibility_score = Rows[i + 1].compatibility_score
               /\ Rows[i].price <= Rows[i + 1].price

\* a list with a drop in score and with two prices at one score
C4_Witness ==
    /\ IsRecommendations
    /\ \E i \in 1..(Len(Rows) - 1) :
          Rows[i].compatibility_score > Rows[i + 1].compatibility_score
    /\ \E i \in 1..(Len(Rows) - 1) :
          /\ Rows[i].compatibility_score = Rows[i + 1].compatibility_score
          /\ Rows[i].price < Rows[i + 1].price

\* C5: get_recommendations returns at most 10 entries.
C5_AtMostTenEntries ==
    IsRecommendations => Len(Rows) <= 10

\* more than ten rows qualified and ten were returned
C5_Witness ==
    /\ IsRecommendations
    /\ Cardinality(Qualifying) > 10
    /\ Len(Rows) = 10

----------------------------------------------------------------------------
(* Properties of the advanced search *)

RowIds == {Rows[i].restaurant_id : i \in 1..Len(Rows)}

\* what the constraints a request carries demand of a restaurant
MeetsGivenConstraints(r, d) ==
    /\ "budget" \in d.keys => r.precio_promedio <= d.budget
    /\ ("zone" \in d.keys /\ d.zone # "") => d.zone \in r.located_in
    /\ ("categories" \in d.keys /\ d.categories # {}) =>
           d.categories \cap r.has_category # {}
    /\ ("pet_friendly" \in d.keys /\ Is(d.pet_friendly)) => Is(r.pet_friendly)
    /\ ("kids_games" \in d.keys /\ Is(d.kids_games)) => Is(r.juegos_ninos)
    /\ ("accessible" \in d.keys /\ Is(d.accessible)) => Is(r.accesible)
    /\ ("promotions" \in d.keys /\ Is(d.promotions)) => Is(r.promociones)
    /\ ("min_service_level" \in d.keys /\ d.min_service_level # 0) =>
           r.nivel_servicio >= d.min_service_level

\* C9 as stated: the result is exactly the restaurants that meet every
\* constraint the request carries, so a request without constraints returns
\* every restaurant of the store.
C9_OnlyGivenConstraintsRestrict ==
    IsAdvanced =>
        RowIds = {r.id : r \in {x \in restaurants :
                                   MeetsGivenConstraints(x, response.criteria)}}

\* C9 amended: the result is exactly the restaurants that meet every constraint
\* the request carries and, when it carries no budget, cost at most 1000.
C9_GivenConstraintsAndDefaultBudget ==
    IsAdvanced =>
        RowIds = {r.id : r \in {x \in restaurants :
                     /\ MeetsGivenConstraints(x, response.criteria)
                     /\ "budget" \notin response.criteria.keys =>
                            x.precio_promedio <= 1000}}

\* a request without constraints answered with some restaurants, but not with
\* the one that costs more than 1000
C9_Witness ==
    /\ IsAdvanced
    /\ response.criteria.keys = {}
    /\ Len(Rows) > 0
    /\ \E r \in restaurants : r.precio_promedio > 1000 /\ r.id \notin RowIds

\* C10: the advanced list holds every restaurant that passes the filter, once,
\* whatever its number, by service level descending and then price ascending.
C10_AllPassingSortedByLevelThenPrice ==
    IsAdvanced =>
        /\ RowIds = {r.id : r \in {x \in restaurants :
                                      AdvancedWhere(x, response.criteria)}}
        /\ Len(Rows) = Cardinality(RowIds)
        /\ \A i \in 1..(Len(Rows) - 1) :
              \/ Rows[i].service_level > Rows[i + 1].service_level
              \/ /\ Rows[i].service_level = Rows[i + 1].service_level
                 /\ Rows[i].price <= Rows[i + 1].price

\* more than ten restaurants returned, with a drop in service level and with
\* two prices at one service level
C10_Witness ==
    /\ IsAdvanced
    /\ Len(Rows) > 10
    /\ \E i \in 1..(Len(Rows) - 1) :
          Rows[i].service_level > Rows[i + 1].service_level
    /\ \E i \in 1..(Len(Rows) - 1) :
          /\ Rows[i].service_level = Rows[i + 1].service_level
          /\ Rows[i].price < Rows[i + 1].price

----------------------------------------------------------------------------
(* Properties of the answers *)

\* the last request reached the store and the store answered
Answered(handler) == last.handler = handler /\ last.logged = <<>>

\* C11: whenever the store answers the query of get_recommendations and no
\* candidate is within the budget or none reaches the threshold, the answer
\* is a success with an empty list of recommendations, not an error.
C11_EmptyListIsSuccess ==
    (Answered("get_recommendations") /\ Qualifying = {}) =>
        /\ response.kind = "recommendations"
        /\ response.status = 200
        /\ Rows = <<>>

\* a user with candidates within the budget, none of them reaching the
\* threshold, was answered with the empty list
C11_Witness ==
    /\ Answered("get_recommendations")
    /\ scored # {}
    /\ Qualifying = {}
    /\ response.status = 200
    /\ Rows = <<>>
    /\ \E u \in users, r \in restaurants : r.precio_promedio > u.budget

\* the last request met an exception of the datastore
StoreFailed ==
    \/ driver = NULL
    \/ \E i \in DOMAIN last.logged : last.logged[i][1] = "Query execution failed"

\* handlers addressed to the user named in the URL, and to the user of the token
UrlHandlers == {"get_recommendations", "get_user_details", "update_user_preferences"}
TokenHandlers == {"get_profile", "save_preferences", "get_preferences"}

\* the store holds a user the request is addressed to
UrlUserExists ==
    \E u \in users : \/ Prop(u, "name") = last.request.user_name
                     \/ Prop(u, "username") = last.request.user_name
TokenUserExists ==
    \E u \in users : u.id = last.request.token.user_id

\* C12: a well-formed request of get_recommendations, get_user_details,
\* update_user_preferences, get_profile, save_preferences or get_preferences
\* addressed to a user that is not in the store is answered NotFound (404),
\* not with a success and not with an Internal error.
C12_UnknownUserIsNotFound ==
    /\ (/\ last.handler \in UrlHandlers
        /\ ~StoreFailed
        /\ response.status # 400
        /\ ~UrlUserExists) => response.status = 404
    /\ (/\ last.handler \in TokenHandlers
        /\ token_required(last.request).status = 200
        /\ ~StoreFailed
        /\ ~TokenUserExists) => response.status = 404

----------------------------------------------------------------------------
(* Properties of the User records *)

\* two different nodes carry the same (set) value of property k
ShareProp(u, v, k) == u.id # v.id /\ Prop(u, k) # NULL /\ Prop(u, k) = Prop(v, k)

\* C13: in every state of the store no two User records share a username and
\* no two share an email, also when register requests run concurrently.
C13_UniqueUsernameAndEmail ==
    \A u \in users, v \in users :
        ~ShareProp(u, v, "username") /\ ~ShareProp(u, v, "email")

\* C14: in every state of the store every User record has budget >= 0.
C14_BudgetNeverNegative ==
    \A u \in users : u.budget >= 0

\* C15: a register request that is rejected, for a missing field, a malformed
\* email, a weak password (400) or a username or email already taken (409),
\* leaves the User records as they were and issues no token.
C15_RejectedRegisterChangesNothing ==
    [][ (last'.handler = "register" /\ response'.status \in {400, 409}) =>
            /\ users' = users
            /\ tokens' = tokens
            /\ last'.token = NoToken ]_vars

\* a registration was refused because the email is taken by a registered user
C15_Witness ==
    /\ last.handler = "register"
    /\ response.status = 409
    /\ last.message = <<"Email already exists">>
    /\ \E u \in users : Prop(u, "email") # NULL

----------------------------------------------------------------------------
(* Properties of the token-protected endpoints *)

ProtectedHandlers == {"logout", "get_profile", "save_preferences", "get_preferences"}

\* the Authorization header is missing, or its token is not one the server
\* signed, or its token has expired
BadToken(a) ==
    \/ a = NoAuthorization
    \/ a.token.kind # "jwt"
    \/ a.expired

\* C16: a request to logout, get_profile, save_preferences or get_preferences
\* whose token is missing, invalid or expired is answered 401 and its handler
\* does not run: no query is sent and the store is left as it was.
C16_BadTokenIsUnauthenticated ==
    [][ (last'.handler \in ProtectedHandlers /\ BadToken(last'.request)) =>
            /\ response'.status = 401
            /\ last'.logged = <<>>
            /\ users' = users
            /\ restaurants' = restaurants ]_vars

\* save_preferences was refused for the expired token of a user of the store
C16_Witness ==
    /\ last.handler = "save_preferences"
    /\ last.request # NoAuthorization
    /\ last.request.token.kind = "jwt"
    /\ last.request.expired
    /\ TokenUserExists
    /\ response.status = 401

----------------------------------------------------------------------------
(* Properties of the error answers *)

\* texts of the exceptions the handlers catch
FailureTexts == {"Database not connected", DriverError, "list index out of range"}

InMessage(text) == \E i \in DOMAIN last.message : last.message[i] = text
InLog(text) == \E i \in DOMAIN last.logged : \E j \in DOMAIN last.logged[i] : last.logged[i][j] = text

\* C17: a request whose datastore query fails (or finds the datastore not
\* connected) is answered 500 with a generic message that holds no text of
\* the failure; the text of the failure is in the log only.
C17_InternalErrorHidesFailure ==
    /\ InLog("Query execution failed") => response.status = 500
    /\ response.status = 500 =>
          /\ \A text \in FailureTexts : ~InMessage(text)
          /\ \E text \in FailureTexts : InLog(text)

----------------------------------------------------------------------------
(* Properties of the ratings *)

\* C18: there is at most one rating per (user, restaurant) pair; a rating
\* that is accepted leaves the pair with exactly one rating, carrying the
\* score just given, whatever the score the pair had before; and the
\* aggregator reports, for a restaurant rated by one user only, that score as
\* the average and a count of 1.
C18_RatingUpsert ==
    /\ \A e1 \in ratings, e2 \in ratings :
          (e1.user = e2.user /\ e1.restaurant = e2.restaurant) => e1 = e2
    /\ (last.handler = "rate_restaurant" /\ response.status = 200) =>
          /\ Cardinality(RatedBy(last.request.user, last.request.restaurant)) = 1
          /\ \A e \in RatedBy(last.request.user, last.request.restaurant) :
                e.score = last.request.score
    /\ last.handler = "get_restaurant_rating" =>
          LET edges == {e \in ratings : e.restaurant = last.request.restaurant}
              users_rating == {e.user : e \in edges}
          IN  /\ response.rows[1].count = Cardinality(users_rating)
              /\ response.rows[1].rated <=> users_rating # {}
              /\ Cardinality(users_rating) = 1 =>
                    \A e \in edges : response.rows[1].average_x100 = 100 * e.score

\* a pair rated 2 was rated again with 5: it has one rating, with score 5,
\* while the other user's rating of the restaurant is as it was
C18_Witness ==
    /\ last.handler = "rate_restaurant"
    /\ response.status = 200
    /\ response.rows[1].replaced = {2}
    /\ last.request.score = 5
    /\ \A e \in RatedBy(last.request.user, last.request.restaurant) : e.score = 5
    /\ Cardinality({e \in ratings : e.restaurant = last.request.restaurant}) = 2

----------------------------------------------------------------------------
(* Frame of the recommendation requests *)

RecommendationHandlers == {"get_recommendations", "get_advanced_recommendations"}

\* C19: a recommendation request, personalised or advanced, leaves every
\* User and Restaurant node and every relationship as it was, whether it
\* answers with entries, with an empty list or with an error.
C19_RecommendationsReadOnly ==
    [][ last'.handler \in RecommendationHandlers =>
            /\ users' = users
            /\ restaurants' = restaurants
            /\ ratings' = ratings ]_vars

\* a user of the store was answered a list of recommendations
C19_Witness ==
    /\ last.handler = "get_recommendations"
    /\ Len(Rows) > 0
    /\ \E u \in users : Holds(CypherEq(u.name, last.request.user_name))

----------------------------------------------------------------------------
(* The truncation of the ranked list *)

\* restaurants with a candidate row (price <= budget) whose score is >= 1
QualifyingRestaurants == {s.r : s \in {x \in scored : x.total_score >= 1}}

\* the candidate (score, price) pair a ranks strictly better than the row b
RanksBetter(score, price, b) ==
    \/ score > b.compatibility_score
    \/ score = b.compatibility_score /\ price < b.price

\* C20: when at most 10 restaurants are within budget with score >= 1, all of
\* them are in the list; and a qualifying restaurant that is not in the list
\* ranks no better, by score descending then price ascending, than any
\* restaurant that is in it.
C20_TruncationKeepsBest ==
    IsRecommendations =>
        /\ Cardinality(QualifyingRestaurants) <= 10 => QualifyingRestaurants \subseteq RowIds
        /\ \A s \in scored :
              (s.total_score >= 1 /\ s.r \notin RowIds) =>
                  \A i \in 1..Len(Rows) :
                      ~RanksBetter(s.total_score, RestaurantById(s.r).precio_promedio,
                                   Rows[i])

----------------------------------------------------------------------------
(* penalties and unset flags *)

\* C21: for every scored pair, also when a flag is unset in the store, the
\* pet, kids and accessibility contributions are negative only when the user's
\* own flag (tiene_mascota, tiene_ninos, necesita_accesibilidad) is true.
C21_PenaltyOnlyWhenFlagTrue ==
    \A s \in scored :
        LET u == UserById(s.u)
        IN  /\ s.pet_score < 0 => Is(u.tiene_mascota)
            /\ s.kids_score < 0 => Is(u.tiene_ninos)
            /\ s.accessibility_score < 0 => Is(u.necesita_accesibilidad)

----------------------------------------------------------------------------
(* one entry per restaurant *)

\* C22: the list get_recommendations returns for a name holds each restaurant
\* at most once (no two entries share a restaurant_id), also when several
\* users carry the name of the lookup.
C22_NoDuplicateRestaurant ==
    IsRecommendations =>
        \A i, j \in 1..Len(Rows) :
            Rows[i].restaurant_id = Rows[j].restaurant_id => i = j

----------------------------------------------------------------------------
(* login *)

\* the credentials of the last login request are those of user u: u's own
\* username or email, and the password u registered with
OwnCredentials(u) ==
    /\ Prop(u, "is_active") = T
    /\ Lower(last.request.username) \in {Prop(u, "username"), Prop(u, "email")}
    /\ verify_password(last.request.password, u.password_hash)

\* C23: a registered active user who calls login with their own username or
\* email and their own password is authenticated and receives a token
\* carrying their own id, whichever other users are registered.
C23_OwnCredentialsAuthenticate ==
    (last.handler = "login" /\ ~StoreFailed /\ response.status # 400) =>
        \A u \in users :
            OwnCredentials(u) =>
                /\ response.status = 200
                /\ last.token.kind = "jwt"
                /\ last.token.user_id = u.id

----------------------------------------------------------------------------
(* preferences *)

\* two dicts are equal: the same items, whatever their order
SameMap(a, b) ==
    /\ Len(a) = Len(b)
    /\ {a[i] : i \in DOMAIN a} = {b[i] : i \in DOMAIN b}

\* the user of the token of the last request
TokenUser == last.request.token.user_id

\* C24: after save_preferences(P) answered an existing authenticated user,
\* what get_preferences returns for that user is a map equal to P (the empty
\* map included, and whatever was saved before), get_preferences answers with
\* that value, and the node of every other user is as it was.
C24_PreferencesRoundTrip ==
    [][ /\ (last'.handler = "save_preferences" /\ response'.status = 200) =>
              /\ SameMap(get_preferences_prefs(TokenUser)', last'.body)
              /\ \A v \in users : v.id # TokenUser' => v \in users'
        /\ (last'.handler = "get_preferences" /\ response'.status = 200) =>
              response'.rows = <<get_preferences_prefs(TokenUser')>> ]_vars

\* get_preferences answered a user with the saved map of a string, a number
\* and a null, while another user is in the store
C24_Witness ==
    /\ last.handler = "get_preferences"
    /\ response.status = 200
    /\ \E u \in users :
          /\ u.id = TokenUser
          /\ "preferences" \in DOMAIN u
          /\ SameMap(response.rows[1], << <<"max", Num(3)>>, <<"note", None>>,
                                          <<"theme", Str("true")>> >>)
    /\ \E v \in users : v.id # TokenUser

====
